---- MODULE Spec2Model ----
(***************************************************************************)
(* A model of the memcheck module pass (src/memcheck.cpp): the classifier  *)
(* isUserDefinedFunction, the accountant/cache analyzeFunction, the two    *)
(* serializers writeToCSV / writeToJSON, and memcheck::run driving them    *)
(* over the functions of one module.                                       *)
(*                                                                         *)
(* Strings are sequences of one-character strings.  A function of the      *)
(* module is a record whose field id is its identity (its address).       *)
(* Files and streams are the sequences of what has been written to them.   *)
(***************************************************************************)
EXTENDS Integers, Sequences, FiniteSets, TLC

VARIABLES
  module,             \* the functions of M, in declaration order
  SCOP_ROOT,          \* the environment variable: [isSet, value]
  pc,                 \* position inside memcheck::run
  runs,               \* how many runs of the pass this process has started
  idx,                \* position of the loop of line 254 in module
  callCounts,         \* run's local map callee id -> count (lines 231-248)
  jsonFile,           \* what has been written to the json file of this run
  isFirstFunction,    \* run's local flag (line 253)
  isUser,             \* value of the condition of line 256 for module[idx]
  analysisMap,        \* the map declared at line 262 (empty when not in scope)
  analysis,           \* the local of line 263 (default value when not in scope)
  csvFile,            \* what has been written to the static stream of line 180
  isFileInitialized,  \* the static flag of line 181
  errs,               \* what has been written to errs()
  traversals          \* id -> how often the loop of lines 69-82 ran in this run

vars == <<module, SCOP_ROOT, pc, runs, idx, callCounts, jsonFile,
          isFirstFunction, isUser, analysisMap, analysis, csvFile,
          isFileInitialized, errs, traversals>>

-----------------------------------------------------------------------------
(* Bounds of the model *)

MaxFuncs == 3
MaxRuns == 2
MaxBody == 3
MaxLen == 3
MaxPath == 2

-----------------------------------------------------------------------------
(* Strings *)

Comma == ","
Quote == "\""
Slash == "/"

RECURSIVE StringsUpTo(_, _)
StringsUpTo(alphabet, n) ==
  IF n = 0 THEN {<<>>}
  ELSE LET shorter == StringsUpTo(alphabet, n - 1)
       IN shorter \cup {Append(s, c) : s \in shorter, c \in alphabet}

\* std::string::find(c, pos), 1-based; 0 stands for npos
RECURSIVE find(_, _, _)
find(s, c, pos) ==
  IF pos > Len(s) THEN 0
  ELSE IF s[pos] = c THEN pos
  ELSE find(s, c, pos + 1)

\* StringRef::startswith
startswith(s, prefix) ==
  Len(prefix) <= Len(s) /\ SubSeq(s, 1, Len(prefix)) = prefix

\* component.substr(component.find_first_not_of(separators))
RECURSIVE StripSeparators(_)
StripSeparators(c) ==
  IF c # <<>> /\ Head(c) = Slash THEN StripSeparators(Tail(c)) ELSE c

\* llvm::sys::path::append(path, component), posix style
PathAppend(path, component) ==
  IF path # <<>> /\ path[Len(path)] = Slash
    THEN path \o StripSeparators(component)
  ELSE IF (component # <<>> /\ Head(component) = Slash) \/ path = <<>>
    THEN path \o component
  ELSE path \o <<Slash>> \o component

-----------------------------------------------------------------------------
(* The program unit *)

\* DataLayout::getTypeAllocSize for the types the model uses (x86-64 layout)
TypeAllocSize(ty) ==
  CASE ty = "i8" -> 1
    [] ty = "i32" -> 4
    [] ty = "i64" -> 8
    [] ty = "ptr" -> 8
    [] OTHER -> 0

\* Instructions.  ty: the type of the instruction's value; valTy, ptrTy: the
\* types of a store's value and pointer operands; callee: the called
\* function's id, 0 for an indirect call.
LoadInst(ty) ==
  [op |-> "load", ty |-> ty, valTy |-> "void", ptrTy |-> "ptr", callee |-> 0]
StoreInst(valTy) ==
  [op |-> "store", ty |-> "void", valTy |-> valTy, ptrTy |-> "ptr", callee |-> 0]
CallInst(callee) ==
  [op |-> "call", ty |-> "i32", valTy |-> "void", ptrTy |-> "void", callee |-> callee]
OtherInst(ty) ==
  [op |-> "other", ty |-> ty, valTy |-> "void", ptrTy |-> "void", callee |-> 0]

\* A function: demangled is what llvm::demangle yields for name.
Fn(id, name, demangled, isDeclaration, hasSubprogram, hasFile, dir, filename, body) ==
  [id |-> id, name |-> name, demangled |-> demangled,
   isDeclaration |-> isDeclaration, hasSubprogram |-> hasSubprogram,
   hasFile |-> hasFile, dir |-> dir, filename |-> filename, body |-> body]

Env(value) == [isSet |-> TRUE, value |-> value]
Unset == [isSet |-> FALSE, value |-> <<>>]

-----------------------------------------------------------------------------
(* memcheck *)

\* struct FunctionAnalysis, default-initialised
FunctionAnalysis ==
  [mangledName |-> <<>>, demangledName |-> <<>>, loads |-> 0, stores |-> 0, bytes |-> 0]

\* llvm::demangle(result.mangledName)
demangle(F) == F.demangled

\* load->getType()
LoadedType(I) == I.ty

\* a variant that takes the type of the address stored to
StoredAddressType(I) == I.ptrTy

\* store->getValueOperand()->getType()
StoredType(I) == I.valTy

\* one iteration of the instruction loop
Account(result, I) ==
  IF I.op = "load"
    THEN [result EXCEPT !.loads = @ + 1,
                        !.bytes = @ + TypeAllocSize(LoadedType(I))]
  ELSE IF I.op = "store"
    THEN [result EXCEPT !.stores = @ + 1,
                        !.bytes = @ + TypeAllocSize(StoredType(I))]
  ELSE result

\* for (auto &BB : F) for (auto &I : BB)
RECURSIVE Traverse(_, _, _)
Traverse(result, body, i) ==
  IF i > Len(body) THEN result
  ELSE Traverse(Account(result, body[i]), body, i + 1)

MapPut(map, key, value) ==
  [k \in DOMAIN map \cup {key} |-> IF k = key THEN value ELSE map[k]]

\* a variant that never looks the function up
analyzeFunctionUncached(F, map) ==
  LET named == [FunctionAnalysis EXCEPT !.mangledName = F.name,
                                        !.demangledName = demangle(F)]
      result == Traverse(named, F.body, 1)
  IN [result |-> result, map |-> MapPut(map, F.id, result), traversed |-> TRUE]

\* analyzeFunction(F, analysisMap): the value returned, the map afterwards and
\* whether the body was traversed
analyzeFunction(F, map) ==
  IF F.id \in DOMAIN map
    THEN [result |-> map[F.id], map |-> map, traversed |-> FALSE]
  ELSE LET named == [FunctionAnalysis EXCEPT !.mangledName = F.name,
                                             !.demangledName = demangle(F)]
           result == Traverse(named, F.body, 1)
       IN [result |-> result, map |-> MapPut(map, F.id, result), traversed |-> TRUE]

ErrorLine ==
  [kind |-> "error", demangledName |-> <<>>, mangledName |-> <<>>,
   loads |-> 0, stores |-> 0, bytes |-> 0]

\* a variant that takes an unset SCOP_ROOT for the empty path
isUserDefinedFunctionUnchecked(F) ==
  IF F.hasSubprogram /\ F.hasFile
    THEN [result |-> startswith(PathAppend(F.dir, F.filename), SCOP_ROOT.value),
          errs |-> <<>>]
  ELSE [result |-> FALSE, errs |-> <<>>]

\* a variant that tests the directory alone
isUserDefinedFunctionByDirectory(F) ==
  IF ~SCOP_ROOT.isSet
    THEN [result |-> FALSE, errs |-> <<ErrorLine>>]
  ELSE IF F.hasSubprogram /\ F.hasFile
    THEN [result |-> startswith(F.dir, SCOP_ROOT.value), errs |-> <<>>]
  ELSE [result |-> FALSE, errs |-> <<>>]

\* isUserDefinedFunction(F): the value returned and the lines written to errs()
isUserDefinedFunction(F) ==
  IF ~SCOP_ROOT.isSet
    THEN [result |-> FALSE, errs |-> <<ErrorLine>>]
  ELSE IF F.hasSubprogram /\ F.hasFile
    THEN [result |-> startswith(PathAppend(F.dir, F.filename), SCOP_ROOT.value),
          errs |-> <<>>]
  ELSE [result |-> FALSE, errs |-> <<>>]

\* printFunctionAnalysis: the block written to errs()
printFunctionAnalysis(a) ==
  <<[kind |-> "block", demangledName |-> a.demangledName,
     mangledName |-> a.mangledName, loads |-> a.loads, stores |-> a.stores,
     bytes |-> a.bytes]>>

\* a variant that leaves the quotes as they are
ReplaceQuotesSkipped(escaped, pos) == escaped

\* the while loop of escapeCSV
RECURSIVE ReplaceQuotes(_, _)
ReplaceQuotes(escaped, pos) ==
  LET at == find(escaped, Quote, pos)
  IN IF at = 0 THEN escaped
     ELSE ReplaceQuotes(SubSeq(escaped, 1, at - 1) \o <<Quote, Quote>>
                          \o SubSeq(escaped, at + 1, Len(escaped)),
                        at + 2)

escapeCSV(cell) ==
  IF find(cell, Comma, 1) # 0 \/ find(cell, Quote, 1) # 0
    THEN <<Quote>> \o ReplaceQuotes(cell, 1) \o <<Quote>>
  ELSE cell

\* the header line of the csv file
CsvHeader ==
  [kind |-> "header", demangledName |-> <<>>, mangledName |-> <<>>,
   loads |-> 0, stores |-> 0, bytes |-> 0]

CsvRow(a) ==
  [kind |-> "row", demangledName |-> escapeCSV(a.demangledName),
   mangledName |-> escapeCSV(a.mangledName), loads |-> a.loads,
   stores |-> a.stores, bytes |-> a.bytes]

\* writeToCSV: the static stream and flag afterwards
writeToCSV(a, file, initialized) ==
  LET opened == IF ~initialized THEN <<CsvHeader>> ELSE file
  IN [csvFile |-> Append(opened, CsvRow(a)), isFileInitialized |-> TRUE]

JsonToken(kind) ==
  [kind |-> kind, demangledName |-> <<>>, mangledName |-> <<>>,
   loads |-> 0, stores |-> 0, bytes |-> 0]

JsonObject(a) ==
  [kind |-> "object", demangledName |-> a.demangledName,
   mangledName |-> a.mangledName, loads |-> a.loads, stores |-> a.stores,
   bytes |-> a.bytes]

\* a variant that separates before every object
writeToJSONAlwaysSeparated(a, file, first) ==
  Append(Append(file, JsonToken(",")), JsonObject(a))

\* writeToJSON: the json file afterwards
writeToJSON(a, file, first) ==
  LET separated == IF ~first THEN Append(file, JsonToken(",")) ELSE file
  IN Append(separated, JsonObject(a))

\* a variant that does not test for a body
QualifiesWithoutBodyTest(F) == isUserDefinedFunction(F).result

\* the condition of line 256
Qualifies(F) == isUserDefinedFunction(F).result /\ ~F.isDeclaration

\* the callees of the direct calls of the module, one entry per call
RECURSIVE CalleesOf(_, _)
CalleesOf(body, i) ==
  IF i > Len(body) THEN <<>>
  ELSE IF body[i].op = "call" /\ body[i].callee # 0
    THEN <<body[i].callee>> \o CalleesOf(body, i + 1)
  ELSE CalleesOf(body, i + 1)

RECURSIVE ModuleCallees(_, _)
ModuleCallees(M, i) ==
  IF i > Len(M) THEN <<>>
  ELSE CalleesOf(M[i].body, 1) \o ModuleCallees(M, i + 1)

\* callCounts[calledFunction]++ over all direct calls
CountCalls(M) ==
  LET callees == ModuleCallees(M, 1)
  IN [f \in {callees[i] : i \in DOMAIN callees} |->
        Cardinality({i \in DOMAIN callees : callees[i] = f})]

-----------------------------------------------------------------------------
(* memcheck::run, step by step *)

\* lines 231-248
ScanCalls ==
  /\ pc = "start"
  /\ callCounts' = CountCalls(module)
  /\ pc' = "open"
  /\ UNCHANGED <<module, SCOP_ROOT, runs, idx, jsonFile, isFirstFunction, isUser,
                 analysisMap, analysis, csvFile, isFileInitialized, errs,
                 traversals>>

\* lines 251-253
OpenJson ==
  /\ pc = "open"
  /\ jsonFile' = <<JsonToken("[")>>
  /\ isFirstFunction' = TRUE
  /\ idx' = 1
  /\ pc' = "loop"
  /\ UNCHANGED <<module, SCOP_ROOT, runs, callCounts, isUser, analysisMap,
                 analysis, csvFile, isFileInitialized, errs, traversals>>

\* lines 254-256: the next function and the condition
Classify ==
  /\ pc = "loop"
  /\ idx <= Len(module)
  /\ errs' = errs \o isUserDefinedFunction(module[idx]).errs
  /\ isUser' = Qualifies(module[idx])
  /\ IF Qualifies(module[idx])
       THEN pc' = "analyze" /\ idx' = idx
       ELSE pc' = "loop" /\ idx' = idx + 1
  /\ UNCHANGED <<module, SCOP_ROOT, runs, callCounts, jsonFile, isFirstFunction,
                 analysisMap, analysis, csvFile, isFileInitialized, traversals>>

\* lines 260-263
Analyze ==
  /\ pc = "analyze"
  /\ LET F == module[idx]
         r == analyzeFunction(F, <<>>)
     IN /\ analysis' = r.result
        /\ analysisMap' = r.map
        /\ traversals' =
             IF r.traversed
               THEN MapPut(traversals, F.id,
                           IF F.id \in DOMAIN traversals
                             THEN traversals[F.id] + 1 ELSE 1)
               ELSE traversals
  /\ pc' = "emit"
  /\ UNCHANGED <<module, SCOP_ROOT, runs, idx, callCounts, jsonFile,
                 isFirstFunction, isUser, csvFile, isFileInitialized, errs>>

\* lines 265-272: the outputs, then the end of the block
Emit ==
  /\ pc = "emit"
  /\ errs' = errs \o printFunctionAnalysis(analysis)
  /\ LET w == writeToCSV(analysis, csvFile, isFileInitialized)
     IN csvFile' = w.csvFile /\ isFileInitialized' = w.isFileInitialized
  /\ jsonFile' = writeToJSON(analysis, jsonFile, isFirstFunction)
  /\ isFirstFunction' = FALSE
  /\ analysisMap' = <<>>
  /\ analysis' = FunctionAnalysis
  /\ idx' = idx + 1
  /\ pc' = "loop"
  /\ UNCHANGED <<module, SCOP_ROOT, runs, callCounts, isUser, traversals>>

\* lines 274-277
CloseJson ==
  /\ pc = "loop"
  /\ idx > Len(module)
  /\ jsonFile' = Append(jsonFile, JsonToken("]"))
  /\ pc' = "done"
  /\ UNCHANGED <<module, SCOP_ROOT, runs, idx, callCounts, isFirstFunction,
                 isUser, analysisMap, analysis, csvFile, isFileInitialized, errs,
                 traversals>>

\* the pipeline runs another memcheck pass over the module in the same process
NextRun ==
  /\ pc = "done"
  /\ runs < MaxRuns
  /\ runs' = runs + 1
  /\ pc' = "start"
  /\ idx' = 1
  /\ callCounts' = <<>>
  /\ isFirstFunction' = TRUE
  /\ isUser' = FALSE
  /\ traversals' = <<>>
  /\ UNCHANGED <<module, SCOP_ROOT, jsonFile, analysisMap, analysis, csvFile,
                 isFileInitialized, errs>>

Next ==
  \/ ScanCalls
  \/ OpenJson
  \/ Classify
  \/ Analyze
  \/ Emit
  \/ CloseJson
  \/ NextRun

\* the state of a process before its first run, for a module and an environment
Start(M, env) ==
  /\ module = M
  /\ SCOP_ROOT = env
  /\ pc = "start"
  /\ runs = 1
  /\ idx = 1
  /\ callCounts = <<>>
  /\ jsonFile = <<>>
  /\ isFirstFunction = TRUE
  /\ isUser = FALSE
  /\ analysisMap = <<>>
  /\ analysis = FunctionAnalysis
  /\ csvFile = <<>>
  /\ isFileInitialized = FALSE
  /\ errs = <<>>
  /\ traversals = <<>>

-----------------------------------------------------------------------------
(* Program units and environments the runs are checked on *)

\* the functions a module is drawn from; names are unique, as in a module
Universe ==
  { Fn(1, <<"f">>, <<"f">>, FALSE, TRUE, TRUE, <<"/", "r">>, <<"a">>,
       <<LoadInst("i32"), StoreInst("i64")>>),
    Fn(2, <<"g">>, <<"g", ",", "h">>, FALSE, TRUE, TRUE, <<"/", "r">>, <<"b">>,
       <<StoreInst("i32"), CallInst(7), OtherInst("i64")>>),
    Fn(3, <<"d">>, <<"d">>, TRUE, TRUE, TRUE, <<"/", "r">>, <<"a">>, <<>>),
    Fn(4, <<"n">>, <<"n">>, FALSE, FALSE, FALSE, <<>>, <<>>,
       <<LoadInst("i64")>>),
    Fn(5, <<"l">>, <<"l">>, FALSE, TRUE, TRUE, <<"/", "x">>, <<"a">>,
       <<LoadInst("i8"), CallInst(0)>>),
    Fn(6, <<"s">>, <<"s">>, FALSE, TRUE, FALSE, <<>>, <<>>,
       <<OtherInst("i32")>>),
    Fn(7, <<"p">>, <<"p">>, TRUE, FALSE, FALSE, <<>>, <<>>, <<>>) }

Ids(M) == {M[i].id : i \in DOMAIN M}

RECURSIVE SequencesUpTo(_)
SequencesUpTo(n) ==
  IF n = 0 THEN {<<>>}
  ELSE LET shorter == SequencesUpTo(n - 1)
       IN shorter \cup {Append(M, F) : M \in shorter, F \in Universe}

\* a module holds a function once, and the callee of every direct call
WellFormed(M) ==
  /\ \A i, j \in DOMAIN M : M[i].id = M[j].id => i = j
  /\ \A i \in DOMAIN ModuleCallees(M, 1) : ModuleCallees(M, 1)[i] \in Ids(M)

Modules == {M \in SequencesUpTo(MaxFuncs) : WellFormed(M)}

Environments == {Unset, Env(<<"/", "r">>), Env(<<"/">>)}

Init == \E M \in Modules, env \in Environments : Start(M, env)

Spec == Init /\ [][Next]_vars

\* one defined function with debug metadata under the root, for every body
Instructions ==
  {LoadInst("i8"), LoadInst("i32"), StoreInst("i32"), StoreInst("i64"),
   OtherInst("i64"), CallInst(0)}

Bodies == StringsUpTo(Instructions, MaxBody)

InitBodies ==
  \E body \in Bodies :
    Start(<<Fn(1, <<"f">>, <<"f">>, FALSE, TRUE, TRUE, <<"/", "r">>, <<"a">>, body)>>,
          Env(<<"/", "r">>))

SpecBodies == InitBodies /\ [][Next]_vars

\* one defined function under the root, for every name and demangled name
Names == StringsUpTo({"a", Comma, Quote}, MaxLen)

InitNames ==
  \E demangled \in Names :
    \E name \in {demangled, <<"a">>} :
      Start(<<Fn(1, name, demangled, FALSE, TRUE, TRUE, <<"/", "r">>, <<"a">>,
                 <<LoadInst("i32")>>)>>,
            Env(<<"/", "r">>))

SpecNames == InitNames /\ [][Next]_vars

\* one defined function, for every root, directory, file name and metadata
Paths == StringsUpTo({Slash, "r"}, MaxPath)

PathFunctions ==
  {Fn(1, <<"f">>, <<"f">>, FALSE, TRUE, TRUE, dir, filename, <<LoadInst("i32")>>) :
     dir \in Paths, filename \in Paths}
  \cup {Fn(1, <<"f">>, <<"f">>, FALSE, hasSubprogram, FALSE, <<>>, <<>>,
           <<LoadInst("i32")>>) : hasSubprogram \in BOOLEAN}

InitPaths ==
  \E F \in PathFunctions, env \in {Unset} \cup {Env(root) : root \in Paths} :
    Start(<<F>>, env)

SpecPaths == InitPaths /\ [][Next]_vars

-----------------------------------------------------------------------------
(* Properties *)

Objects(file) == {i \in DOMAIN file : file[i].kind = "object"}
Rows(file) == {i \in DOMAIN file : file[i].kind = "row"}
ErrorLines(stream) == {i \in DOMAIN stream : stream[i].kind = "error"}

\* the functions of M with a body that the classifier accepts, in M's order
Accepted(F) == ~F.isDeclaration /\ isUserDefinedFunction(F).result
Survivors(M) == SelectSeq(M, Accepted)

CountOp(body, op) == Cardinality({i \in DOMAIN body : body[i].op = op})

RECURSIVE TouchedBytes(_)
TouchedBytes(body) ==
  IF body = <<>> THEN 0
  ELSE LET I == Head(body)
           size == CASE I.op = "load" -> TypeAllocSize(I.ty)
                     [] I.op = "store" -> TypeAllocSize(I.valTy)
                     [] OTHER -> 0
       IN size + TouchedBytes(Tail(body))

\* the metrics the accountant is to produce for F
Metrics(F) ==
  [mangledName |-> F.name, demangledName |-> F.demangled,
   loads |-> CountOp(F.body, "load"), stores |-> CountOp(F.body, "store"),
   bytes |-> TouchedBytes(F.body)]

\* C1: a declaration, and a function the classifier rejects, has no row in the
\* csv file and no object in the json file, whatever the root path.
C1_DeclarationsExcluded ==
  \A i \in DOMAIN module :
    LET F == module[i]
    IN (F.isDeclaration \/ ~isUserDefinedFunction(F).result)
         => /\ \A r \in Rows(csvFile) : csvFile[r].mangledName # escapeCSV(F.name)
            /\ \A o \in Objects(jsonFile) : jsonFile[o].mangledName # F.name

\* a finished run that wrote rows, over a module holding a declaration whose
\* source path lies under the root
C1_Witness ==
  /\ pc = "done"
  /\ Rows(csvFile) # {}
  /\ Objects(jsonFile) # {}
  /\ \E i \in DOMAIN module :
       module[i].isDeclaration /\ isUserDefinedFunction(module[i]).result

\* C2: after a run that analyzed N functions the json file is "[", the N
\* objects with their five fields, one "," between consecutive objects and
\* none after the last, and "]".
C2_JsonWellFormed ==
  pc = "done" =>
    LET fs == Survivors(module)
        N == Len(fs)
    IN /\ Len(jsonFile) = 2 + N + (IF N > 0 THEN N - 1 ELSE 0)
       /\ jsonFile[1] = JsonToken("[")
       /\ jsonFile[Len(jsonFile)] = JsonToken("]")
       /\ \A k \in 1..N :
            /\ jsonFile[2 * k].kind = "object"
            /\ jsonFile[2 * k].demangledName = fs[k].demangled
            /\ jsonFile[2 * k].mangledName = fs[k].name
            /\ jsonFile[2 * k].loads = Metrics(fs[k]).loads
            /\ jsonFile[2 * k].stores = Metrics(fs[k]).stores
            /\ jsonFile[2 * k].bytes = Metrics(fs[k]).bytes
       /\ \A k \in 1..(N - 1) : jsonFile[2 * k + 1] = JsonToken(",")
       /\ Cardinality({i \in DOMAIN jsonFile : jsonFile[i].kind = ","})
            = (IF N > 0 THEN N - 1 ELSE 0)

\* a finished run that analyzed at least two functions
C2_Witness ==
  pc = "done" /\ Len(Survivors(module)) >= 2 /\ Cardinality(Objects(jsonFile)) >= 2

\* C3: the analysis of a body has loads = number of loads, stores = number of
\* stores, bytes = sizes of the loaded values plus sizes of the stored values;
\* one load of 4 bytes and one store of 8 bytes give loads 1, stores 1, bytes 12.
C3_ByteAccounting ==
  pc = "emit" =>
    LET F == module[idx]
    IN /\ analysis.loads = CountOp(F.body, "load")
       /\ analysis.stores = CountOp(F.body, "store")
       /\ analysis.bytes = TouchedBytes(F.body)
       /\ F.body = <<LoadInst("i32"), StoreInst("i64")>>
            => analysis.loads = 1 /\ analysis.stores = 1 /\ analysis.bytes = 12

\* the analysis of a body with a 4-byte store, a load and another instruction
C3_Witness ==
  /\ pc = "emit"
  /\ module[idx].body = <<StoreInst("i32"), OtherInst("i64"), LoadInst("i8")>>
  /\ analysis.bytes = 5

\* C4: with SCOP_ROOT unset the classifier rejects every function, with debug
\* metadata or without, and the run analyzes none and writes no row or object.
C4_FailClosed ==
  ~SCOP_ROOT.isSet =>
    /\ \A i \in DOMAIN module : ~isUserDefinedFunction(module[i]).result
    /\ ~isUser
    /\ pc \notin {"analyze", "emit"}
    /\ Rows(csvFile) = {}
    /\ Objects(jsonFile) = {}

\* a finished run with SCOP_ROOT unset over a module with a defined function
\* that has debug metadata and one that has none
C4_Witness ==
  /\ ~SCOP_ROOT.isSet
  /\ pc = "done"
  /\ \E i, j \in DOMAIN module :
       /\ ~module[i].isDeclaration /\ module[i].hasSubprogram /\ module[i].hasFile
       /\ ~module[j].hasSubprogram

IsPrefix(prefix, s) ==
  Len(prefix) <= Len(s) /\ \A i \in 1..Len(prefix) : s[i] = prefix[i]

\* C5: with SCOP_ROOT set the classifier accepts a function exactly when it has
\* debug metadata with a file and directory joined with file name starts with
\* the root; a file right under the root is accepted, a function without
\* metadata is rejected.
C5_PathPrefix ==
  SCOP_ROOT.isSet =>
    /\ \A i \in DOMAIN module :
         LET F == module[i]
             ret == isUserDefinedFunction(F).result
         IN /\ ret = (/\ F.hasSubprogram
                      /\ F.hasFile
                      /\ IsPrefix(SCOP_ROOT.value, PathAppend(F.dir, F.filename)))
            /\ (F.hasSubprogram /\ F.hasFile /\ F.dir = SCOP_ROOT.value) => ret
            /\ ~F.hasSubprogram => ~ret
    /\ (pc \in {"analyze", "emit"}) =>
         /\ isUser
         /\ module[idx].hasSubprogram
         /\ IsPrefix(SCOP_ROOT.value,
                     PathAppend(module[idx].dir, module[idx].filename))

\* a function whose file lies in the root directory "/r" has been accepted
C5_Witness ==
  /\ SCOP_ROOT = Env(<<Slash, "r">>)
  /\ pc = "analyze"
  /\ module[idx].dir = <<Slash, "r">>
  /\ module[idx].filename = <<"r">>

\* C6: the body of a function is traversed at most once in a run, what
\* analyzeFunction returns is the accountant's result, and a second request
\* for an identity in the cache returns the stored entry without a traversal.
C6_CacheEquivalence ==
  /\ \A id \in DOMAIN traversals : traversals[id] <= 1
  /\ pc = "emit" => analysis = Metrics(module[idx])
  /\ \A i \in DOMAIN module :
       LET first == analyzeFunction(module[i], analysisMap)
           second == analyzeFunction(module[i], first.map)
       IN /\ first.result = Metrics(module[i])
          /\ second.result = first.result
          /\ ~second.traversed
          /\ second.map = first.map

\* a function has been analyzed and its entry is in the cache
C6_Witness ==
  /\ pc = "emit"
  /\ module[idx].id \in DOMAIN analysisMap
  /\ traversals[module[idx].id] = 1
  /\ module[idx].body # <<>>

\* the rows a run over M is to write
CsvRows(M) == [k \in 1..Len(Survivors(M)) |-> CsvRow(Metrics(Survivors(M)[k]))]

\* C7: at the end of every run the csv file is the header followed by one row
\* for each function analyzed in that run, in module order.
C7_CsvRewrittenEachRun ==
  pc = "done" => csvFile = <<CsvHeader>> \o CsvRows(module)

\* strips the doubling of the quotes of a cell's inside; ok is FALSE where a
\* quote stands alone
RECURSIVE Halve(_)
Halve(inner) ==
  IF inner = <<>> THEN [ok |-> TRUE, out |-> <<>>]
  ELSE IF Head(inner) # Quote
    THEN LET rest == Halve(Tail(inner))
         IN [ok |-> rest.ok, out |-> <<Head(inner)>> \o rest.out]
  ELSE IF Len(inner) >= 2 /\ inner[2] = Quote
    THEN LET rest == Halve(SubSeq(inner, 3, Len(inner)))
         IN [ok |-> rest.ok, out |-> <<Quote>> \o rest.out]
  ELSE [ok |-> FALSE, out |-> <<>>]

HasSpecial(name) == \E i \in DOMAIN name : name[i] \in {Comma, Quote}

Escaped(cell, name) ==
  HasSpecial(name) =>
    /\ Len(cell) >= 2
    /\ cell[1] = Quote
    /\ cell[Len(cell)] = Quote
    /\ Halve(SubSeq(cell, 2, Len(cell) - 1)).ok
    /\ Halve(SubSeq(cell, 2, Len(cell) - 1)).out = name

\* C8: a name with a comma or a quote is written as a cell wrapped in quotes,
\* every quote of the name doubled inside, so that stripping the wrapping
\* quotes and halving the doubled ones gives the name back; a,a is "a,a".
C8_CsvEscaping ==
  \A r \in Rows(csvFile) :
    \E i \in DOMAIN module :
      /\ Escaped(csvFile[r].demangledName, module[i].demangled)
      /\ Escaped(csvFile[r].mangledName, module[i].name)
      /\ module[i].demangled = <<"a", Comma, "a">>
           => csvFile[r].demangledName = <<Quote, "a", Comma, "a", Quote>>

\* a row has been written for a name holding a quote and a comma
C8_Witness ==
  /\ Rows(csvFile) # {}
  /\ module[1].name = <<Quote, Comma, Quote>>

\* C9: in a run with SCOP_ROOT unset the error line is written once, however
\* many functions the module has.
C9_ErrorReportedOnce ==
  (pc = "done" /\ runs = 1 /\ ~SCOP_ROOT.isSet /\ Len(module) >= 1)
    => Cardinality(ErrorLines(errs)) = 1

\* C10: during a run the cache holds the entry of every function analyzed so
\* far in that run.
C10_CacheKeepsEntries ==
  pc \in {"loop", "analyze", "emit"} =>
    \A k \in 1..(idx - 1) :
      Accepted(module[k]) =>
        /\ module[k].id \in DOMAIN analysisMap
        /\ analysisMap[module[k].id] = Metrics(module[k])

====
